---------------------------- MODULE Spec2Model ----------------------------
(***************************************************************************)
(* A model of terminal-tetris.py: the Game class (board, bag randomizer,   *)
(* collision test, lock delay, line clearing, scoring, hold) and the       *)
(* driving loop game_loop (handle_input, apply_gravity, update).           *)
(*                                                                         *)
(* Time is counted in units of 0.05 s, so that every timing constant of    *)
(* the source is an integer: LOCK_DELAY_DURATION 0.5 s = 10, the gravity   *)
(* interval 0.8 s = 16 and its per-level step 0.05 s = 1.                  *)
(*                                                                         *)
(* The playfield is checked on a reduced size (the source has              *)
(* BOARD_WIDTH = 10 and BOARD_HEIGHT = 30); BOARD_WIDTH and BOARD_HEIGHT   *)
(* are bounds of the model.                                                *)
(***************************************************************************)
EXTENDS Integers, Sequences, FiniteSets, TLC

\* ------------------------------------------------------------- bounds

\* Playfield size of the model (source: 10 x 30).
BOARD_WIDTH == 4
BOARD_HEIGHT == 5

\* The clock starts at ClockStart and is not advanced beyond MaxTime.
ClockStart == 1
MaxTime == 21

\* term.inkey returns at most MaxKeys keys in a run.
MaxKeys == 4

\* random.shuffle: the first ShuffleFree kinds popped from a fresh bag are
\* arbitrary, the remaining ones come in the order of SHAPES.keys().
ShuffleFree == 1

\* ------------------------------------------------- program constants

MIN_LEVEL == 1
MAX_LEVEL == 15
INITIAL_GRAVITY_INTERVAL == 16
GRAVITY_LEVEL_MULTIPLIER == 1
MIN_GRAVITY_INTERVAL == 1
LOCK_DELAY_DURATION == 10

\* An empty cell of the board (0 in the source; the other cells hold a
\* shape name).
EMPTY == "0"

\* list(SHAPES.keys()), in the order of the dictionary literal.
SHAPE_KEYS == <<"I", "O", "T", "S", "Z", "J", "L">>

Kinds == {SHAPE_KEYS[i] : i \in 1..Len(SHAPE_KEYS)}

\* SHAPES: per kind the 4 rotation states, each a 5x5 grid; 1 is 'O', 0 is '.'.
SHAPES ==
  [I |-> << << <<0,0,0,0,0>>, <<0,0,1,0,0>>, <<0,0,1,0,0>>, <<0,0,1,0,0>>, <<0,0,1,0,0>> >>,
            << <<0,0,0,0,0>>, <<0,0,0,0,0>>, <<1,1,1,1,0>>, <<0,0,0,0,0>>, <<0,0,0,0,0>> >>,
            << <<0,1,0,0,0>>, <<0,1,0,0,0>>, <<0,1,0,0,0>>, <<0,1,0,0,0>>, <<0,0,0,0,0>> >>,
            << <<0,0,0,0,0>>, <<0,0,0,0,0>>, <<0,1,1,1,1>>, <<0,0,0,0,0>>, <<0,0,0,0,0>> >> >>,
   O |-> << << <<0,0,0,0,0>>, <<0,1,1,0,0>>, <<0,1,1,0,0>>, <<0,0,0,0,0>>, <<0,0,0,0,0>> >>,
            << <<0,0,0,0,0>>, <<0,1,1,0,0>>, <<0,1,1,0,0>>, <<0,0,0,0,0>>, <<0,0,0,0,0>> >>,
            << <<0,0,0,0,0>>, <<0,1,1,0,0>>, <<0,1,1,0,0>>, <<0,0,0,0,0>>, <<0,0,0,0,0>> >>,
            << <<0,0,0,0,0>>, <<0,1,1,0,0>>, <<0,1,1,0,0>>, <<0,0,0,0,0>>, <<0,0,0,0,0>> >> >>,
   T |-> << << <<0,0,0,0,0>>, <<0,0,1,0,0>>, <<0,1,1,1,0>>, <<0,0,0,0,0>>, <<0,0,0,0,0>> >>,
            << <<0,0,0,0,0>>, <<0,0,1,0,0>>, <<0,0,1,1,0>>, <<0,0,1,0,0>>, <<0,0,0,0,0>> >>,
            << <<0,0,0,0,0>>, <<0,0,0,0,0>>, <<0,1,1,1,0>>, <<0,0,1,0,0>>, <<0,0,0,0,0>> >>,
            << <<0,0,0,0,0>>, <<0,0,1,0,0>>, <<0,1,1,0,0>>, <<0,0,1,0,0>>, <<0,0,0,0,0>> >> >>,
   S |-> << << <<0,0,0,0,0>>, <<0,0,1,1,0>>, <<0,1,1,0,0>>, <<0,0,0,0,0>>, <<0,0,0,0,0>> >>,
            << <<0,0,0,0,0>>, <<0,1,0,0,0>>, <<0,1,1,0,0>>, <<0,0,1,0,0>>, <<0,0,0,0,0>> >>,
            << <<0,0,0,0,0>>, <<0,0,1,1,0>>, <<0,1,1,0,0>>, <<0,0,0,0,0>>, <<0,0,0,0,0>> >>,
            << <<0,0,0,0,0>>, <<0,1,0,0,0>>, <<0,1,1,0,0>>, <<0,0,1,0,0>>, <<0,0,0,0,0>> >> >>,
   Z |-> << << <<0,0,0,0,0>>, <<0,1,1,0,0>>, <<0,0,1,1,0>>, <<0,0,0,0,0>>, <<0,0,0,0,0>> >>,
            << <<0,0,0,0,0>>, <<0,0,1,0,0>>, <<0,1,1,0,0>>, <<0,1,0,0,0>>, <<0,0,0,0,0>> >>,
            << <<0,0,0,0,0>>, <<0,1,1,0,0>>, <<0,0,1,1,0>>, <<0,0,0,0,0>>, <<0,0,0,0,0>> >>,
            << <<0,0,0,0,0>>, <<0,0,1,0,0>>, <<0,1,1,0,0>>, <<0,1,0,0,0>>, <<0,0,0,0,0>> >> >>,
   J |-> << << <<0,0,0,0,0>>, <<0,1,0,0,0>>, <<0,1,1,1,0>>, <<0,0,0,0,0>>, <<0,0,0,0,0>> >>,
            << <<0,0,0,0,0>>, <<0,0,1,1,0>>, <<0,0,1,0,0>>, <<0,0,1,0,0>>, <<0,0,0,0,0>> >>,
            << <<0,0,0,0,0>>, <<0,0,0,0,0>>, <<0,1,1,1,0>>, <<0,0,0,1,0>>, <<0,0,0,0,0>> >>,
            << <<0,0,0,0,0>>, <<0,0,1,0,0>>, <<0,0,1,0,0>>, <<0,1,1,0,0>>, <<0,0,0,0,0>> >> >>,
   L |-> << << <<0,0,0,0,0>>, <<0,0,0,1,0>>, <<0,1,1,1,0>>, <<0,0,0,0,0>>, <<0,0,0,0,0>> >>,
            << <<0,0,0,0,0>>, <<0,0,1,0,0>>, <<0,0,1,0,0>>, <<0,0,1,1,0>>, <<0,0,0,0,0>> >>,
            << <<0,0,0,0,0>>, <<0,0,0,0,0>>, <<0,1,1,1,0>>, <<0,1,0,0,0>>, <<0,0,0,0,0>> >>,
            << <<0,0,0,0,0>>, <<0,1,1,0,0>>, <<0,0,1,0,0>>, <<0,0,1,0,0>>, <<0,0,0,0,0>> >> >> ]

\* SCORE_VALUES; the multiplier 1.5 is kept as the fraction 3/2.
SCORE_VALUES ==
  [SINGLE |-> 100, DOUBLE |-> 300, TRIPLE |-> 500, TETRIS |-> 800,
   T_SPIN_MINI |-> 100, T_SPIN |-> 400,
   T_SPIN_SINGLE |-> 800, T_SPIN_DOUBLE |-> 1200, T_SPIN_TRIPLE |-> 1600]

BACK_TO_BACK_NUM == 3
BACK_TO_BACK_DEN == 2

\* The value None, and None where a Piece is expected (hold_piece).
None == "None"
NoPiece == [shape_name |-> None, rotation |-> 0, x |-> 0, y |-> 0]

\* ---------------------------------------------------------- class Piece

\* Piece.__init__
Piece(shape_name) ==
  [shape_name |-> shape_name, rotation |-> 0,
   x |-> (BOARD_WIDTH \div 2) - 2, y |-> -2]

\* Piece.get_current_shape_matrix
get_current_shape_matrix(piece) == SHAPES[piece.shape_name][piece.rotation + 1]

\* The cells (c, r) of a 5x5 grid in the order of the two nested loops of
\* get_block_locations: rows first, columns within a row.
GridOrder == [i \in 1..25 |-> <<(i - 1) % 5, (i - 1) \div 5>>]

\* For each kind and rotation, the cells (c, r) whose character is 'O', in
\* loop order.
SHAPE_CELLS ==
  [k \in Kinds |-> [rot \in 0..3 |->
     SelectSeq(GridOrder, LAMBDA cr : SHAPES[k][rot + 1][cr[2] + 1][cr[1] + 1] = 1)]]

\* Piece.get_block_locations: the list of board coordinates (x, y) of the 'O'
\* cells of the current shape matrix, in loop order.
get_block_locations(piece) ==
  LET cells == SHAPE_CELLS[piece.shape_name][piece.rotation]
  IN  [i \in 1..Len(cells) |-> <<piece.x + cells[i][1], piece.y + cells[i][2]>>]

\* ----------------------------------------------------------- class Game

\* A row of empty cells, and the empty board of Game.__init__. Row y of the
\* source is board[y + 1] here, column x is row[x + 1].
EmptyRow == [x \in 1..BOARD_WIDTH |-> EMPTY]
EmptyBoard == [y \in 1..BOARD_HEIGHT |-> EmptyRow]

\* The outcomes of random.shuffle(list(SHAPES.keys())) that the model draws
\* from: bags whose last ShuffleFree elements (the first ones popped) are any
\* distinct kinds and whose other elements keep the order of SHAPE_KEYS.
ShuffleOutcomes ==
  LET Injective(f) == \A i, j \in DOMAIN f : f[i] = f[j] => i = j
      Tails == {t \in [1..ShuffleFree -> Kinds] : Injective(t)}
      Rest(t) == SelectSeq(SHAPE_KEYS, LAMBDA k : \A i \in 1..ShuffleFree : t[i] # k)
  IN  {Rest(t) \o t : t \in Tails}

\* Game._refill_bag; perm is the outcome of random.shuffle.
refill_bag(g, perm) ==
  IF g.bag = <<>> THEN [g EXCEPT !.bag = perm] ELSE g

\* A _new_piece that pops from a bag it has just shuffled, whatever is left
\* in the bag.
new_piece_game_reshuffled(g, perm) ==
  [g EXCEPT !.bag = SubSeq(perm, 1, Len(perm) - 1),
            !.drawn = Append(g.drawn, perm[Len(perm)])]

\* Game._new_piece: the game after the pop. The field drawn is a history of
\* the kinds popped, which no operation reads.
new_piece_game(g, perm) ==
  LET g1 == IF g.bag = <<>> THEN refill_bag(g, perm) ELSE g
      n  == Len(g1.bag)
  IN  [g1 EXCEPT !.bag = SubSeq(g1.bag, 1, n - 1),
                 !.drawn = Append(g1.drawn, g1.bag[n])]

\* Game._new_piece: the piece it returns.
new_piece(g, perm) ==
  LET g1 == IF g.bag = <<>> THEN refill_bag(g, perm) ELSE g
  IN  Piece(g1.bag[Len(g1.bag)])

\* Game._is_valid_position: the loop over the blocks from block i on, with
\* its two early returns.
RECURSIVE valid_from(_, _, _, _)
valid_from(board, blocks, i, check_y_offset) ==
  IF i > Len(blocks) THEN TRUE
  ELSE LET x == blocks[i][1]
           y == blocks[i][2] + check_y_offset
       IN  IF ~(0 <= x /\ x < BOARD_WIDTH /\ y < BOARD_HEIGHT) THEN FALSE
           ELSE IF y >= 0 /\ board[y + 1][x + 1] # EMPTY THEN FALSE
           ELSE valid_from(board, blocks, i + 1, check_y_offset)

\* A _is_valid_position that also rejects a block above the top row.
is_valid_position_inside(board, piece, check_y_offset) ==
  LET blocks == get_block_locations(piece)
  IN  \A i \in DOMAIN blocks :
        LET x == blocks[i][1]
            y == blocks[i][2] + check_y_offset
        IN  /\ 0 <= x /\ x < BOARD_WIDTH
            /\ 0 <= y /\ y < BOARD_HEIGHT
            /\ board[y + 1][x + 1] = EMPTY

\* Game._is_valid_position
is_valid_position(board, piece, check_y_offset) ==
  valid_from(board, get_block_locations(piece), 1, check_y_offset)

\* Game._is_touching_ground
is_touching_ground(g) == ~is_valid_position(g.board, g.current_piece, 1)

\* The occupancy test of one corner in Game._check_t_spin.
corner_occupied(board, x, y) ==
  \/ ~(0 <= x /\ x < BOARD_WIDTH /\ 0 <= y /\ y < BOARD_HEIGHT)
  \/ (y >= 0 /\ board[y + 1][x + 1] # EMPTY)

\* The list corners of Game._check_t_spin.
t_spin_corners(piece) ==
  LET center_x == piece.x + 2
      center_y == piece.y + 1
  IN  << <<center_x - 1, center_y - 1>>, <<center_x + 1, center_y - 1>>,
         <<center_x - 1, center_y + 1>>, <<center_x + 1, center_y + 1>> >>

\* The counter occupied_corners of Game._check_t_spin after its loop.
occupied_corners_of(g) ==
  LET corners == t_spin_corners(g.current_piece)
  IN  Cardinality({i \in 1..4 : corner_occupied(g.board, corners[i][1], corners[i][2])})

\* A T-Spin check that asks for no front corner.
check_t_spin_any_pair(g) ==
  IF occupied_corners_of(g) >= 3 THEN "T_SPIN"
  ELSE IF occupied_corners_of(g) = 2 THEN "T_SPIN_MINI"
  ELSE None

\* Game._check_t_spin
check_t_spin(g) ==
  LET piece == g.current_piece
      corners == t_spin_corners(piece)
      occupied_corners == occupied_corners_of(g)
      front_corners ==
        IF piece.rotation = 0 THEN <<corners[1], corners[2]>>
        ELSE IF piece.rotation = 1 THEN <<corners[2], corners[4]>>
        ELSE IF piece.rotation = 2 THEN <<corners[3], corners[4]>>
        ELSE <<corners[1], corners[3]>>
  IN  IF occupied_corners >= 3 THEN "T_SPIN"
      ELSE IF /\ occupied_corners = 2
              /\ \E i \in 1..2 :
                   corner_occupied(g.board, front_corners[i][1], front_corners[i][2])
           THEN "T_SPIN_MINI"
      ELSE None

\* The score key chosen in Game._clear_lines ("" when none is chosen).
score_key_of(t_spin_type, lines_cleared_count) ==
  IF t_spin_type # None
  THEN IF lines_cleared_count = 1 THEN "T_SPIN_SINGLE"
       ELSE IF lines_cleared_count = 2 THEN "T_SPIN_DOUBLE"
       ELSE IF lines_cleared_count = 3 THEN "T_SPIN_TRIPLE"
       ELSE t_spin_type
  ELSE IF lines_cleared_count = 1 THEN "SINGLE"
       ELSE IF lines_cleared_count = 2 THEN "DOUBLE"
       ELSE IF lines_cleared_count = 3 THEN "TRIPLE"
       ELSE IF lines_cleared_count = 4 THEN "TETRIS"
       ELSE ""

\* "TETRIS" in score_key or "T_SPIN" in score_key
is_difficult_clear(score_key) ==
  score_key \in {"TETRIS", "T_SPIN", "T_SPIN_MINI",
                 "T_SPIN_SINGLE", "T_SPIN_DOUBLE", "T_SPIN_TRIPLE"}

\* The points of a clear without the back-to-back multiplier.
clear_points_plain(score_key, is_back_to_back, level) ==
  IF score_key = "" THEN 0 ELSE SCORE_VALUES[score_key] * level

\* int(base_score * self.level) of Game._clear_lines, base_score being
\* multiplied by 1.5 first for a back-to-back difficult clear.
clear_points(score_key, is_back_to_back, level) ==
  IF score_key = "" THEN 0
  ELSE LET base_score == SCORE_VALUES[score_key]
       IN  IF is_difficult_clear(score_key) /\ is_back_to_back
           THEN (base_score * BACK_TO_BACK_NUM * level) \div BACK_TO_BACK_DEN
           ELSE base_score * level

\* A line clear that leaves a single full row in the board.
clear_lines_pairs_only(g, t_spin_type) ==
  LET new_board == SelectSeq(g.board, LAMBDA row : \E x \in 1..BOARD_WIDTH : row[x] = EMPTY)
      lines_cleared_count == BOARD_HEIGHT - Len(new_board)
  IN  IF lines_cleared_count < 2
      THEN [game |-> g, ret |-> 0]
      ELSE LET lines == g.lines_cleared + lines_cleared_count
           IN  [game |-> [g EXCEPT
                      !.board = [i \in 1..lines_cleared_count |-> EmptyRow] \o new_board,
                      !.score = g.score + clear_points(score_key_of(t_spin_type, lines_cleared_count),
                                                       g.is_back_to_back, g.level),
                      !.lines_cleared = lines,
                      !.level = (lines \div 10) + 1],
                ret |-> lines_cleared_count]

\* A line clear that puts the new empty rows below the rows it keeps.
clear_lines_rows_below(g, t_spin_type) ==
  LET new_board == SelectSeq(g.board, LAMBDA row : \E x \in 1..BOARD_WIDTH : row[x] = EMPTY)
      lines_cleared_count == BOARD_HEIGHT - Len(new_board)
  IN  IF lines_cleared_count = 0 /\ t_spin_type = None
      THEN [game |-> g, ret |-> 0]
      ELSE LET lines == g.lines_cleared + lines_cleared_count
           IN  [game |-> [g EXCEPT
                      !.board = new_board \o [i \in 1..lines_cleared_count |-> EmptyRow],
                      !.score = g.score + clear_points(score_key_of(t_spin_type, lines_cleared_count),
                                                       g.is_back_to_back, g.level),
                      !.lines_cleared = lines,
                      !.level = (lines \div 10) + 1],
                ret |-> lines_cleared_count]

\* Game._clear_lines: the game after the call and the value returned.
clear_lines(g, t_spin_type) ==
  LET new_board == SelectSeq(g.board, LAMBDA row : \E x \in 1..BOARD_WIDTH : row[x] = EMPTY)
      lines_cleared_count == BOARD_HEIGHT - Len(new_board)
  IN  IF lines_cleared_count = 0 /\ t_spin_type = None
      THEN [game |-> g, ret |-> 0]
      ELSE LET filled == [i \in 1..lines_cleared_count |-> EmptyRow] \o new_board
               score_key == score_key_of(t_spin_type, lines_cleared_count)
               lines == g.lines_cleared + lines_cleared_count
           IN  [game |-> [g EXCEPT
                      !.board = filled,
                      !.score = g.score + clear_points(score_key, g.is_back_to_back, g.level),
                      !.lines_cleared = lines,
                      !.level = (lines \div 10) + 1],
                ret |-> lines_cleared_count]

\* The T-Spin type computed at the start of Game._lock_piece.
lock_t_spin_type(g) ==
  IF g.current_piece.shape_name = "T" /\ g.last_move_was_rotation
  THEN check_t_spin(g) ELSE None

\* The board after Game._lock_piece has written the blocks with y >= 0.
lock_write(g) ==
  LET blocks == get_block_locations(g.current_piece)
      cells == {blocks[i] : i \in 1..Len(blocks)}
  IN  [y \in 1..BOARD_HEIGHT |-> [x \in 1..BOARD_WIDTH |->
         IF <<x - 1, y - 1>> \in cells THEN g.current_piece.shape_name
         ELSE g.board[y][x]]]

\* A lock that leaves can_hold as it is.
lock_piece_hold_spent(g, perm) ==
  LET t_spin_type == lock_t_spin_type(g)
      cl == clear_lines([g EXCEPT !.board = lock_write(g)], t_spin_type)
      g2 == IF t_spin_type # None \/ cl.ret = 4
            THEN [cl.game EXCEPT !.is_back_to_back = TRUE]
            ELSE IF cl.ret > 0
            THEN [cl.game EXCEPT !.is_back_to_back = FALSE]
            ELSE cl.game
      g3 == [new_piece_game(g2, perm) EXCEPT
               !.current_piece = g2.next_piece,
               !.next_piece = new_piece(g2, perm),
               !.last_move_was_rotation = FALSE]
  IN  IF ~is_valid_position(g3.board, g3.current_piece, 0)
      THEN [g3 EXCEPT !.game_over = TRUE]
      ELSE g3

\* Game._lock_piece; perm is the outcome of the shuffle, should _new_piece
\* refill the bag.
lock_piece(g, perm) ==
  LET t_spin_type == lock_t_spin_type(g)
      cl == clear_lines([g EXCEPT !.board = lock_write(g)], t_spin_type)
      g1 == cl.game
      lines_cleared_this_turn == cl.ret
      g2 == IF t_spin_type # None \/ lines_cleared_this_turn = 4
            THEN [g1 EXCEPT !.is_back_to_back = TRUE]
            ELSE IF lines_cleared_this_turn > 0
            THEN [g1 EXCEPT !.is_back_to_back = FALSE]
            ELSE g1
      g3 == [new_piece_game(g2, perm) EXCEPT
               !.can_hold = TRUE,
               !.current_piece = g2.next_piece,
               !.next_piece = new_piece(g2, perm),
               !.last_move_was_rotation = FALSE]
  IN  IF ~is_valid_position(g3.board, g3.current_piece, 0)
      THEN [g3 EXCEPT !.game_over = TRUE]
      ELSE g3

\* A lock delay that restarts whenever it is initiated.
initiate_lock_delay_restarting(g, now_t) ==
  [g EXCEPT !.lock_delay_start_time = now_t]

\* Game.initiate_lock_delay; now is the value of time.time().
initiate_lock_delay(g, now_t) ==
  IF g.lock_delay_start_time = 0
  THEN [g EXCEPT !.lock_delay_start_time = now_t] ELSE g

\* Game.reset_lock_delay
reset_lock_delay(g, now_t) ==
  IF is_touching_ground(g) THEN initiate_lock_delay(g, now_t)
  ELSE [g EXCEPT !.lock_delay_start_time = 0]

\* A move that clears last_move_was_rotation even when it is blocked.
move_clears_flag(g, dx, now_t) ==
  LET moved == [g EXCEPT !.current_piece.x = g.current_piece.x + dx]
  IN  IF ~is_valid_position(moved.board, moved.current_piece, 0)
      THEN [g EXCEPT !.last_move_was_rotation = FALSE]
      ELSE reset_lock_delay([moved EXCEPT !.last_move_was_rotation = FALSE], now_t)

\* Game.move
move(g, dx, now_t) ==
  LET moved == [g EXCEPT !.current_piece.x = g.current_piece.x + dx]
  IN  IF ~is_valid_position(moved.board, moved.current_piece, 0)
      THEN [moved EXCEPT !.current_piece.x = moved.current_piece.x - dx]
      ELSE reset_lock_delay([moved EXCEPT !.last_move_was_rotation = FALSE], now_t)

\* Kick offsets that try the right before the left.
KICKS_right_first == <<1, -1, 2, -2>>

\* The kick offsets tried by Game.rotate, in order.
KICKS == <<-1, 1, -2, 2>>

\* The loop over the kicks in Game.rotate from kick i on; g holds the
\* rotated piece, original_rotation the rotation to revert to.
RECURSIVE rotate_kicks(_, _, _, _)
rotate_kicks(g, original_rotation, i, now_t) ==
  IF i > Len(KICKS) THEN [g EXCEPT !.current_piece.rotation = original_rotation]
  ELSE LET kicked == [g EXCEPT !.current_piece.x = g.current_piece.x + KICKS[i]]
       IN  IF is_valid_position(kicked.board, kicked.current_piece, 0)
           THEN reset_lock_delay([kicked EXCEPT !.last_move_was_rotation = TRUE], now_t)
           ELSE rotate_kicks(g, original_rotation, i + 1, now_t)

\* A rotate that cycles through three rotations, without kicks.
rotate_of_three(g, now_t) ==
  LET turned == [g EXCEPT !.current_piece.rotation = (g.current_piece.rotation + 1) % 3]
  IN  IF ~is_valid_position(turned.board, turned.current_piece, 0)
      THEN g
      ELSE reset_lock_delay([turned EXCEPT !.last_move_was_rotation = TRUE], now_t)

\* Game.rotate
rotate(g, now_t) ==
  LET original_rotation == g.current_piece.rotation
      turned == [g EXCEPT !.current_piece.rotation = (g.current_piece.rotation + 1) % 4]
  IN  IF ~is_valid_position(turned.board, turned.current_piece, 0)
      THEN rotate_kicks(turned, original_rotation, 1, now_t)
      ELSE reset_lock_delay([turned EXCEPT !.last_move_was_rotation = TRUE], now_t)

\* Game.soft_drop
soft_drop(g, now_t) ==
  IF ~is_touching_ground(g)
  THEN [g EXCEPT !.current_piece.y = g.current_piece.y + 1,
                 !.score = g.score + 1,
                 !.last_move_was_rotation = FALSE]
  ELSE initiate_lock_delay(g, now_t)

\* The while loop of Game.hard_drop: the game when the loop ends, and
\* drop_distance.
\* A hard drop that moves the piece down by one row at most.
hard_drop_loop_one_row(g, drop_distance) ==
  IF ~is_touching_ground(g)
  THEN [game |-> [g EXCEPT !.current_piece.y = g.current_piece.y + 1],
        drop_distance |-> drop_distance + 1]
  ELSE [game |-> g, drop_distance |-> drop_distance]

RECURSIVE hard_drop_loop(_, _)
hard_drop_loop(g, drop_distance) ==
  IF ~is_touching_ground(g)
  THEN hard_drop_loop([g EXCEPT !.current_piece.y = g.current_piece.y + 1],
                      drop_distance + 1)
  ELSE [game |-> g, drop_distance |-> drop_distance]

\* A hard drop that awards one point per row.
hard_drop_before_lock_one_point(g) ==
  LET d == hard_drop_loop(g, 0)
  IN  [d.game EXCEPT !.score = d.game.score + d.drop_distance]

\* The game at the moment Game.hard_drop calls _lock_piece.
hard_drop_before_lock(g) ==
  LET d == hard_drop_loop(g, 0)
  IN  [d.game EXCEPT !.score = d.game.score + d.drop_distance * 2]

\* Game.hard_drop
hard_drop(g, perm) == lock_piece(hard_drop_before_lock(g), perm)

\* A hold that does not test can_hold.
hold_unguarded(g, perm) ==
  LET swapped ==
        IF g.hold_piece = NoPiece
        THEN [new_piece_game(g, perm) EXCEPT
                !.hold_piece = Piece(g.current_piece.shape_name),
                !.current_piece = g.next_piece,
                !.next_piece = new_piece(g, perm)]
        ELSE [g EXCEPT
                !.current_piece = Piece(g.hold_piece.shape_name),
                !.hold_piece = Piece(g.current_piece.shape_name)]
  IN  [swapped EXCEPT !.can_hold = FALSE, !.last_move_was_rotation = FALSE]

\* A hold that swaps the kinds and leaves the active piece where it is.
hold_in_flight(g, perm) ==
  IF g.can_hold
  THEN LET swapped ==
             IF g.hold_piece = NoPiece
             THEN [new_piece_game(g, perm) EXCEPT
                     !.hold_piece = Piece(g.current_piece.shape_name),
                     !.current_piece = g.next_piece,
                     !.next_piece = new_piece(g, perm)]
             ELSE [g EXCEPT
                     !.current_piece.shape_name = g.hold_piece.shape_name,
                     !.hold_piece = Piece(g.current_piece.shape_name)]
       IN  [swapped EXCEPT !.can_hold = FALSE, !.last_move_was_rotation = FALSE]
  ELSE g

\* Game.hold
hold(g, perm) ==
  IF g.can_hold
  THEN LET swapped ==
             IF g.hold_piece = NoPiece
             THEN [new_piece_game(g, perm) EXCEPT
                     !.hold_piece = Piece(g.current_piece.shape_name),
                     !.current_piece = g.next_piece,
                     !.next_piece = new_piece(g, perm)]
             ELSE [g EXCEPT
                     !.current_piece = Piece(g.hold_piece.shape_name),
                     !.hold_piece = Piece(g.current_piece.shape_name)]
       IN  [swapped EXCEPT !.can_hold = FALSE, !.last_move_was_rotation = FALSE]
  ELSE g

\* Whether Game.update calls _lock_piece.
update_locks(g, now_t) ==
  /\ ~(g.paused \/ g.game_over)
  /\ is_touching_ground(g)
  /\ now_t - initiate_lock_delay(g, now_t).lock_delay_start_time >= LOCK_DELAY_DURATION

\* An update that returns early when paused only, not when game_over.
update_after_game_over(g, now_t, perm) ==
  IF g.paused THEN g
  ELSE IF is_touching_ground(g)
  THEN LET started == initiate_lock_delay(g, now_t)
       IN  IF now_t - started.lock_delay_start_time >= LOCK_DELAY_DURATION
           THEN lock_piece(started, perm)
           ELSE started
  ELSE reset_lock_delay(g, now_t)

\* Game.update
update(g, now_t, perm) ==
  IF g.paused \/ g.game_over THEN g
  ELSE IF is_touching_ground(g)
  THEN LET started == initiate_lock_delay(g, now_t)
       IN  IF now_t - started.lock_delay_start_time >= LOCK_DELAY_DURATION
           THEN lock_piece(started, perm)
           ELSE started
  ELSE reset_lock_delay(g, now_t)

\* A ghost that goes down by one row at most.
ghost_loop_one_row(board, ghost_piece) ==
  IF is_valid_position(board, ghost_piece, 1) THEN ghost_piece.y + 1 ELSE ghost_piece.y

\* Game.get_ghost_piece_y: the while loop on the copy ghost_piece.
RECURSIVE ghost_loop(_, _)
ghost_loop(board, ghost_piece) ==
  IF is_valid_position(board, ghost_piece, 1)
  THEN ghost_loop(board, [ghost_piece EXCEPT !.y = ghost_piece.y + 1])
  ELSE ghost_piece.y

\* Game.get_ghost_piece_y
get_ghost_piece_y(g) ==
  LET ghost_piece == [Piece(g.current_piece.shape_name) EXCEPT
                        !.x = g.current_piece.x,
                        !.y = g.current_piece.y,
                        !.rotation = g.current_piece.rotation]
  IN  ghost_loop(g.board, ghost_piece)

\* Game.__init__; perm is the outcome of the shuffle of the first bag.
NewGame(start_level, perm) ==
  LET g  == [board |-> EmptyBoard, score |-> 0, lines_cleared |-> 0,
             level |-> start_level, game_over |-> FALSE, paused |-> FALSE,
             bag |-> <<>>, drawn |-> <<>>,
             current_piece |-> NoPiece, next_piece |-> NoPiece, hold_piece |-> NoPiece,
             can_hold |-> TRUE, is_back_to_back |-> FALSE,
             last_move_was_rotation |-> FALSE, lock_delay_start_time |-> 0]
      g0 == refill_bag(g, perm)
      g1 == [new_piece_game(g0, perm) EXCEPT !.current_piece = new_piece(g0, perm)]
  IN  [new_piece_game(g1, perm) EXCEPT !.next_piece = new_piece(g1, perm)]

\* ------------------------------------------------- the driving loop

\* max(MIN_GRAVITY_INTERVAL, INITIAL_GRAVITY_INTERVAL - (level - 1) * GRAVITY_LEVEL_MULTIPLIER)
gravity_interval(level) ==
  LET v == INITIAL_GRAVITY_INTERVAL - (level - 1) * GRAVITY_LEVEL_MULTIPLIER
  IN  IF v > MIN_GRAVITY_INTERVAL THEN v ELSE MIN_GRAVITY_INTERVAL

\* A gravity that does not test whether the piece touches the ground.
apply_gravity_through_ground(g, last_gravity, now_t) ==
  IF g.paused THEN [game |-> g, ret |-> last_gravity]
  ELSE IF now_t - last_gravity > gravity_interval(g.level)
  THEN [game |-> [g EXCEPT !.current_piece.y = g.current_piece.y + 1], ret |-> now_t]
  ELSE [game |-> g, ret |-> last_gravity]

\* apply_gravity: the game after the call and the gravity time returned.
apply_gravity(g, last_gravity, now_t) ==
  IF g.paused THEN [game |-> g, ret |-> last_gravity]
  ELSE IF now_t - last_gravity > gravity_interval(g.level)
  THEN [game |-> IF ~is_touching_ground(g)
                 THEN [g EXCEPT !.current_piece.y = g.current_piece.y + 1]
                 ELSE g,
        ret |-> now_t]
  ELSE [game |-> g, ret |-> last_gravity]

\* The keys handle_input tells apart ("none": no key within the timeout).
KEYS == {"none", "left", "right", "up", "down", "space", "c", "p", "q"}

\* handle_input: the game after the call and the value returned; key is what
\* term.inkey returned, t the time, perm the shuffle should the bag refill.
handle_input(g, key, t, perm) ==
  IF key = "none" THEN [game |-> g, ret |-> TRUE]
  ELSE LET g1 == IF ~g.paused
                 THEN IF key = "left" THEN move(g, -1, t)
                      ELSE IF key = "right" THEN move(g, 1, t)
                      ELSE IF key = "up" THEN rotate(g, t)
                      ELSE IF key = "down" THEN soft_drop(g, t)
                      ELSE IF key = "space" THEN hard_drop(g, perm)
                      ELSE IF key = "c" THEN hold(g, perm)
                      ELSE g
                 ELSE g
       IN  IF key = "p" THEN [game |-> [g1 EXCEPT !.paused = ~g1.paused], ret |-> TRUE]
           ELSE IF key = "q" THEN [game |-> [g1 EXCEPT !.game_over = TRUE], ret |-> FALSE]
           ELSE [game |-> g1, ret |-> TRUE]

VARIABLES
  game,               \* the Game object
  now,                \* the wall clock, time.time()
  last_gravity_time,  \* the local variable of game_loop
  pc,                 \* the call game_loop makes next: "input", "gravity", "update"; "exit"
  keys,               \* the number of keys read so far
  hist                \* observations of the run (history), read by no operation

vars == <<game, now, last_gravity_time, pc, keys, hist>>

\* --------------------------------------------------------- observations
\* hist.last_lock describes the last call of _lock_piece: who called it
\* (by: "timer" from update, "hard" from hard_drop, "call" a direct call), the
\* piece as it was locked, whether it was touching the ground, the T-Spin
\* type and the number of rows of the lock, the points the lock added, the
\* level, is_back_to_back, lines_cleared, last_move_was_rotation (rotated)
\* and the board as they were before the lock, the number of corners that
\* _check_t_spin counts as occupied for the piece, the board after the blocks
\* of the piece were written and before rows were cleared, and
\* three durations, each cut at LOCK_DELAY_DURATION: ground_for, for how long
\* the piece had been touching the ground without interruption; since_move,
\* the time since its last successful move or rotation that left it on the
\* ground (LOCK_DELAY_DURATION when there was none); unpaused, the time since
\* lock_delay_start_time without the time spent in pause.
\* hist.ground_since is the time since which the active piece has been
\* touching the ground without interruption (0: it is not); hist.moved_at
\* the time of the last successful move or rotation of the active piece that
\* left it on the ground (0: none); hist.paused_in_timer the time that has
\* passed in pause since lock_delay_start_time was last written.
\* hist.ret is the last direct call of _is_valid_position on the active
\* piece: its check_y_offset and the value it returned.
\* hist.op is the last direct call of move(), rotate(), soft_drop() or
\* get_ghost_piece_y(): its name, the argument dx of move, the number n of
\* direct calls so far, the game before the call, the number run of rotate()
\* calls in a row up to this one whose plain rotation was valid, with the
\* piece origin as it was before the first of them, and the value ret that
\* get_ghost_piece_y returned.

NoLock == [by |-> "none", n |-> 0, piece |-> NoPiece, grounded |-> FALSE,
           t_spin |-> None, lines |-> 0, points |-> 0,
           level_before |-> 0, back_to_back_before |-> FALSE,
           lines_before |-> 0, rotated |-> FALSE, corners |-> 0,
           board_before |-> EmptyBoard, board_written |-> EmptyBoard,
           ground_for |-> 0, since_move |-> 0, unpaused |-> 0]

NoRet == [call |-> "none", check_y_offset |-> 0, value |-> FALSE]

\* No direct call of move() or rotate() on the game g yet.
NoOp(g) == [name |-> "none", dx |-> 0, n |-> 0, before |-> g,
            run |-> 0, origin |-> g.current_piece, ret |-> 0]

CutAtLockDelay(d) == IF d > LOCK_DELAY_DURATION THEN LOCK_DELAY_DURATION ELSE d

\* The observation of a call of _lock_piece on pre at time t that returned
\* post; h is the history before the call.
LockInfo(h, pre, post, by, t) ==
  [by |-> by, n |-> h.last_lock.n + 1, piece |-> pre.current_piece,
   grounded |-> is_touching_ground(pre),
   t_spin |-> lock_t_spin_type(pre),
   lines |-> clear_lines([pre EXCEPT !.board = lock_write(pre)], lock_t_spin_type(pre)).ret,
   points |-> post.score - pre.score,
   level_before |-> pre.level,
   back_to_back_before |-> pre.is_back_to_back,
   lines_before |-> pre.lines_cleared,
   rotated |-> pre.last_move_was_rotation,
   corners |-> occupied_corners_of(pre),
   board_before |-> pre.board,
   board_written |-> lock_write(pre),
   ground_for |-> IF h.ground_since = 0 THEN 0 ELSE CutAtLockDelay(t - h.ground_since),
   since_move |-> IF h.moved_at = 0 THEN LOCK_DELAY_DURATION
                  ELSE CutAtLockDelay(t - h.moved_at),
   unpaused |-> CutAtLockDelay(t - pre.lock_delay_start_time - h.paused_in_timer)]

\* The history after a step from pre to post at time t; fresh tells that
\* the active piece was replaced, moved that a move or rotation succeeded.
Observe(h, pre, post, t, fresh, moved, lock) ==
  LET gnd == is_touching_ground(post)
  IN  [last_lock |-> lock,
       ret |-> h.ret,
       op |-> h.op,
       ground_since |-> IF ~gnd THEN 0
                        ELSE IF fresh \/ h.ground_since = 0 THEN t
                        ELSE h.ground_since,
       moved_at |-> IF fresh THEN 0
                    ELSE IF moved /\ gnd THEN t
                    ELSE h.moved_at,
       paused_in_timer |->
         IF post.lock_delay_start_time # pre.lock_delay_start_time THEN 0
         ELSE h.paused_in_timer]

HistInit(g, t) ==
  [last_lock |-> NoLock,
   ret |-> NoRet,
   op |-> NoOp(g),
   ground_since |-> IF is_touching_ground(g) THEN t ELSE 0,
   moved_at |-> 0,
   paused_in_timer |-> 0]

\* The history after handle_input(g, key, t, perm) returned post.
ObserveInput(h, g, post, key, t) ==
  IF g.paused \/ key \in {"none", "p", "q"} THEN h
  ELSE IF key = "space"
  THEN Observe(h, g, post, t, TRUE, FALSE,
               LockInfo(h, hard_drop_before_lock(g), post, "hard", t))
  ELSE IF key = "c"
  THEN Observe(h, g, post, t, g.can_hold, FALSE, h.last_lock)
  ELSE Observe(h, g, post, t, FALSE,
               key \in {"left", "right", "up"} /\ post.current_piece # g.current_piece,
               h.last_lock)

\* The history after update() on g returned post.
ObserveUpdate(h, g, post, t) ==
  IF update_locks(g, t)
  THEN Observe(h, g, post, t, TRUE, FALSE,
               LockInfo(h, initiate_lock_delay(g, t), post, "timer", t))
  ELSE Observe(h, g, post, t, FALSE, FALSE, h.last_lock)

\* ------------------------------------------------------------- game_loop

\* The start levels main() passes to Game().
StartLevels == {MIN_LEVEL}

\* The shuffles an operation on g may see: any outcome when the bag is empty
\* at the draw, and else none that matters.
Shuffles(g) == IF g.bag = <<>> THEN ShuffleOutcomes ELSE {SHAPE_KEYS}

\* main(): Game(start_level=...) and the first lines of game_loop.
Init ==
  /\ \E start_level \in StartLevels, perm \in ShuffleOutcomes :
       game = NewGame(start_level, perm)
  /\ now = ClockStart
  /\ last_gravity_time = ClockStart
  /\ pc = "input"
  /\ keys = 0
  /\ hist = HistInit(game, now)

\* Time passes while term.inkey waits for a key: the clock advances by one
\* of the given steps, up to the time until.
Tick(steps, until) ==
  /\ pc = "input"
  /\ \E dt \in steps :
       /\ now + dt <= until
       /\ now' = now + dt
       /\ hist' = [hist EXCEPT !.paused_in_timer =
                     IF game.paused /\ game.lock_delay_start_time # 0
                     THEN @ + dt ELSE @]
  /\ UNCHANGED <<game, last_gravity_time, pc, keys>>

\* game_loop calls handle_input and term.inkey returns key.
Input(key) ==
  /\ pc = "input"
  /\ key = "none" \/ keys < MaxKeys
  /\ keys' = IF key = "none" THEN keys ELSE keys + 1
  /\ \E perm \in Shuffles(game) :
       \E inp \in {handle_input(game, key, now, perm)} :
          /\ game' = inp.game
          /\ pc' = IF inp.ret THEN "gravity" ELSE "exit"
  /\ hist' = ObserveInput(hist, game, game', key, now)
  /\ UNCHANGED <<now, last_gravity_time>>

\* handle_input: no key within the timeout.
NoKey == Input("none")

\* handle_input: KEY_LEFT, KEY_RIGHT.
KeyLeft == Input("left")
KeyRight == Input("right")

\* handle_input: KEY_UP.
KeyRotate == Input("up")

\* handle_input: KEY_DOWN.
KeySoftDrop == Input("down")

\* handle_input: the space bar.
KeyHardDrop == Input("space")

\* handle_input: 'c'.
KeyHold == Input("c")

\* handle_input: 'p'.
KeyPause == Input("p")

\* handle_input: 'q'; game_loop leaves its loop.
KeyQuit == Input("q")

\* game_loop: last_gravity_time = apply_gravity(game, last_gravity_time).
Gravity ==
  /\ pc = "gravity"
  /\ \E r \in {apply_gravity(game, last_gravity_time, now)} :
       /\ game' = r.game
       /\ last_gravity_time' = r.ret
  /\ hist' = Observe(hist, game, game', now, FALSE, FALSE, hist.last_lock)
  /\ pc' = "update"
  /\ UNCHANGED <<now, keys>>

\* game_loop: game.update() unless paused, then the test of the while loop.
Update ==
  /\ pc = "update"
  /\ \E perm \in Shuffles(game) :
       game' = IF ~game.paused THEN update(game, now, perm) ELSE game
  /\ hist' = IF ~game.paused THEN ObserveUpdate(hist, game, game', now) ELSE hist
  /\ pc' = IF game'.game_over THEN "exit" ELSE "input"
  /\ UNCHANGED <<now, last_gravity_time, keys>>

\* The clock steps of Spec: half a second, the lock delay.
CoarseSteps == {LOCK_DELAY_DURATION}

Next ==
  \/ Tick(CoarseSteps, MaxTime)
  \/ NoKey
  \/ KeyLeft
  \/ KeyRight
  \/ KeyRotate
  \/ KeySoftDrop
  \/ KeyHardDrop
  \/ KeyHold
  \/ KeyPause
  \/ KeyQuit
  \/ Gravity
  \/ Update

Spec == Init /\ [][Next]_vars

\* The clock steps of SpecLockDelay, 0.1 s and 0.4 s, and the time at which
\* its clock stops.
FineSteps == {2, 8}
MaxFineTime == 11

NextLockDelay ==
  \/ Tick(FineSteps, MaxFineTime)
  \/ NoKey
  \/ KeyLeft
  \/ KeyRight
  \/ KeyRotate
  \/ KeySoftDrop
  \/ KeyHardDrop
  \/ KeyHold
  \/ KeyPause
  \/ KeyQuit
  \/ Gravity
  \/ Update

\* The game under a clock that advances in steps of 0.1 s and 0.4 s.
SpecLockDelay == Init /\ [][NextLockDelay]_vars

\* The number of pieces popped from the bag in a run of SpecBag.
MaxDraws == 14

\* A direct call of Game.hard_drop().
CallHardDrop ==
  /\ Len(game.drawn) < MaxDraws
  /\ \E perm \in Shuffles(game) : game' = hard_drop(game, perm)
  /\ hist' = ObserveInput(hist, game, game', "space", now)
  /\ UNCHANGED <<now, last_gravity_time, pc, keys>>

\* A direct call of Game.hold().
CallHold ==
  /\ Len(game.drawn) < MaxDraws
  /\ \E perm \in Shuffles(game) : game' = hold(game, perm)
  /\ hist' = ObserveInput(hist, game, game', "c", now)
  /\ UNCHANGED <<now, last_gravity_time, pc, keys>>

NextBag ==
  \/ CallHardDrop
  \/ CallHold

\* A Game object on which hard_drop() and hold() are called in any order.
SpecBag == Init /\ [][NextBag]_vars

\* ------------------------------------------------- calls of one method

\* The start levels of the games on which one method is called.
MaxStartLevel == 2
UnitLevels == MIN_LEVEL..MaxStartLevel

\* The kind written in the cells that the boards of InitLock and InitValid
\* fill.
FillKind == "O"

\* Game(start_level) with a board and an active piece set up by the caller.
GameWith(start_level, board, piece, last_move_was_rotation, is_back_to_back) ==
  [NewGame(start_level, SHAPE_KEYS) EXCEPT
     !.board = board,
     !.current_piece = piece,
     !.last_move_was_rotation = last_move_was_rotation,
     !.is_back_to_back = is_back_to_back]

\* The pieces of InitLock: an I or a T whose blocks are inside the columns
\* and above the floor.
LockPieces ==
  {p \in [shape_name : {"I", "T"}, rotation : 0..3,
          x : (-2)..(BOARD_WIDTH - 2), y : (-2)..(BOARD_HEIGHT - 2)] :
     is_valid_position(EmptyBoard, p, 0)}

\* How InitLock fills a row around the piece: not at all, every cell, or
\* every cell but the leftmost or the rightmost one.
RowModes == {"empty", "fill", "gap_left", "gap_right"}

\* The rows of the board from the one above the topmost block of the piece
\* down.
RowsFrom(piece) ==
  LET blocks == get_block_locations(piece)
  IN  {y \in 1..BOARD_HEIGHT : \E i \in DOMAIN blocks : blocks[i][2] <= y}

\* The board around a piece: the cells of the piece and the rows above
\* RowsFrom(piece) are empty, and the other cells of row y are filled as modes[y] says.
LockBoard(piece, modes) ==
  LET blocks == get_block_locations(piece)
      cells == {blocks[i] : i \in DOMAIN blocks}
  IN  [y \in 1..BOARD_HEIGHT |->
        [x \in 1..BOARD_WIDTH |->
           IF <<x - 1, y - 1>> \in cells \/ y \notin DOMAIN modes THEN EMPTY
           ELSE IF modes[y] = "empty" THEN EMPTY
           ELSE IF modes[y] = "gap_left" /\ x = 1 THEN EMPTY
           ELSE IF modes[y] = "gap_right" /\ x = BOARD_WIDTH THEN EMPTY
           ELSE FillKind]]

\* The boards around a piece on which the piece touches the ground and no
\* row is full yet.
LockBoards(piece) ==
  {board \in {LockBoard(piece, modes) : modes \in [RowsFrom(piece) -> RowModes]} :
     /\ \A y \in 1..BOARD_HEIGHT : \E x \in 1..BOARD_WIDTH : board[y][x] = EMPTY
     /\ ~is_valid_position(board, piece, 1)}

\* A game about to lock its piece.
InitLock ==
  /\ \E piece \in LockPieces :
       \E board \in LockBoards(piece), lmr \in BOOLEAN, b2b \in BOOLEAN,
          start_level \in UnitLevels :
            game = GameWith(start_level, board, piece, lmr, b2b)
  /\ now = ClockStart
  /\ last_gravity_time = ClockStart
  /\ pc = "input"
  /\ keys = 0
  /\ hist = HistInit(game, now)

\* A direct call of Game._lock_piece().
CallLockPiece ==
  /\ hist.last_lock.n = 0
  /\ \E perm \in Shuffles(game) : game' = lock_piece(game, perm)
  /\ hist' = Observe(hist, game, game', now, TRUE, FALSE,
                     LockInfo(hist, game, game', "call", now))
  /\ UNCHANGED <<now, last_gravity_time, pc, keys>>

NextLock == CallLockPiece

\* _lock_piece() called once on a game set up by InitLock.
SpecLock == InitLock /\ [][NextLock]_vars

\* The greatest value of lines_cleared in the games of InitLevel.
MaxLinesBefore == 149

\* The piece of InitLevel: an upright I standing on the floor.
LevelPiece == [Piece("I") EXCEPT !.y = BOARD_HEIGHT - 5]

\* The boards of InitLevel: around the piece every row is full or has a gap
\* at its right end.
LevelBoards ==
  {board \in {LockBoard(LevelPiece, modes) :
               modes \in [RowsFrom(LevelPiece) -> {"fill", "gap_right"}]} :
     \A y \in 1..BOARD_HEIGHT : \E x \in 1..BOARD_WIDTH : board[y][x] = EMPTY}

\* A game that has cleared some lines, or none yet at any start level of the
\* menu, and is about to lock its piece.
InitLevel ==
  /\ \E board \in LevelBoards, lines \in 0..MaxLinesBefore :
       \E start_level \in (IF lines = 0 THEN MIN_LEVEL..MAX_LEVEL ELSE {MIN_LEVEL}) :
          game = [GameWith(start_level, board, LevelPiece, FALSE, FALSE) EXCEPT
                    !.lines_cleared = lines,
                    !.level = IF lines = 0 THEN start_level ELSE (lines \div 10) + 1]
  /\ now = ClockStart
  /\ last_gravity_time = ClockStart
  /\ pc = "input"
  /\ keys = 0
  /\ hist = HistInit(game, now)

\* _lock_piece() called once on a game set up by InitLevel.
SpecLevel == InitLevel /\ [][NextLock]_vars

\* The boards of InitValid: each row is empty or has its second cell filled.
ProbeBoards ==
  {[y \in 1..BOARD_HEIGHT |->
     [x \in 1..BOARD_WIDTH |-> IF x = 2 /\ y \in rows THEN FillKind ELSE EMPTY]] :
   rows \in SUBSET (1..BOARD_HEIGHT)}

\* The boards of InitMove: those of InitValid, and those with the third cell
\* of some of the rows filled.
MoveBoards ==
  ProbeBoards \cup
  {[y \in 1..BOARD_HEIGHT |->
     [x \in 1..BOARD_WIDTH |-> IF x = 3 /\ y \in rows THEN FillKind ELSE EMPTY]] :
   rows \in SUBSET (1..BOARD_HEIGHT)}

\* The number of rotate() calls in a row in SpecMove.
MaxRotations == 4

\* The active pieces of InitMove on a board: any kind and rotation in any
\* valid position.
MovePieces(board) ==
  {p \in [shape_name : Kinds, rotation : 0..3,
          x : (-2)..BOARD_WIDTH, y : (-2)..BOARD_HEIGHT] :
     is_valid_position(board, p, 0)}

\* A game whose active piece is in any valid position.
InitMove ==
  /\ \E board \in MoveBoards :
       \E piece \in MovePieces(board), lmr \in BOOLEAN :
          game = GameWith(MIN_LEVEL, board, piece, lmr, FALSE)
  /\ now = ClockStart
  /\ last_gravity_time = ClockStart
  /\ pc = "input"
  /\ keys = 0
  /\ hist = HistInit(game, now)

\* A direct call of Game.move(dx), the first call on the game.
CallMove(dx) ==
  /\ hist.op.n = 0
  /\ game' = move(game, dx, now)
  /\ hist' = [hist EXCEPT !.op = [name |-> "move", dx |-> dx, n |-> 1, before |-> game,
                                  run |-> 0, origin |-> game.current_piece, ret |-> 0]]
  /\ UNCHANGED <<now, last_gravity_time, pc, keys>>

CallMoveLeft == CallMove(-1)

CallMoveRight == CallMove(1)

\* A direct call of Game.rotate(), the first call on the game or one that
\* follows a rotate().
CallRotate ==
  /\ hist.op.n < MaxRotations
  /\ hist.op.n = 0 \/ hist.op.name = "rotate"
  /\ game' = rotate(game, now)
  /\ LET plain == is_valid_position(
                    game.board,
                    [game.current_piece EXCEPT !.rotation = (@ + 1) % 4], 0)
     IN  hist' = [hist EXCEPT !.op =
                    [name |-> "rotate", dx |-> 0, n |-> hist.op.n + 1, before |-> game,
                     run |-> IF plain THEN hist.op.run + 1 ELSE 0,
                     origin |-> IF plain /\ hist.op.run > 0 THEN hist.op.origin
                                ELSE game.current_piece,
                     ret |-> 0]]
  /\ UNCHANGED <<now, last_gravity_time, pc, keys>>

NextMove ==
  \/ CallMoveLeft
  \/ CallMoveRight
  \/ CallRotate

\* move() called once, or rotate() called up to MaxRotations times, on a
\* game set up by InitMove.
SpecMove == InitMove /\ [][NextMove]_vars

\* A game whose active piece is in any valid position, with the lock timer
\* unset or started one clock unit ago.
InitDrop ==
  /\ \E board \in MoveBoards :
       \E piece \in MovePieces(board), lmr \in BOOLEAN, timer \in {0, ClockStart} :
          game = [GameWith(MIN_LEVEL, board, piece, lmr, FALSE) EXCEPT
                    !.lock_delay_start_time = timer]
  /\ now = ClockStart + 1
  /\ last_gravity_time = ClockStart
  /\ pc = "input"
  /\ keys = 0
  /\ hist = HistInit(game, now)

\* A direct call of Game.soft_drop(), the first call on the game.
CallSoftDrop ==
  /\ hist.op.n = 0
  /\ game' = soft_drop(game, now)
  /\ hist' = [hist EXCEPT !.op = [name |-> "soft_drop", dx |-> 0, n |-> 1, before |-> game,
                                  run |-> 0, origin |-> game.current_piece, ret |-> 0]]
  /\ UNCHANGED <<now, last_gravity_time, pc, keys>>

\* A direct call of Game.get_ghost_piece_y(), the first call on the game;
\* the method works on the copy ghost_piece and assigns no field of the game.
CallGetGhostPieceY ==
  /\ hist.op.n = 0
  /\ game' = game
  /\ hist' = [hist EXCEPT !.op = [name |-> "get_ghost_piece_y", dx |-> 0, n |-> 1,
                                  before |-> game, run |-> 0,
                                  origin |-> game.current_piece,
                                  ret |-> get_ghost_piece_y(game)]]
  /\ UNCHANGED <<now, last_gravity_time, pc, keys>>

\* A direct call of Game.hard_drop() in the state in which
\* get_ghost_piece_y() was called.
CallHardDropAtGhost ==
  /\ hist.op.name = "get_ghost_piece_y"
  /\ hist.last_lock.n = 0
  /\ \E perm \in Shuffles(game) : game' = hard_drop(game, perm)
  /\ hist' = ObserveInput(hist, game, game', "space", now)
  /\ UNCHANGED <<now, last_gravity_time, pc, keys>>

NextDrop ==
  \/ CallSoftDrop
  \/ CallGetGhostPieceY
  \/ CallHardDropAtGhost

\* soft_drop() called once, or get_ghost_piece_y() and then hard_drop(), on
\* a game set up by InitDrop.
SpecDrop == InitDrop /\ [][NextDrop]_vars

\* The boards of InitLive: the second column filled up to some height.
LiveBoards ==
  {[y \in 1..BOARD_HEIGHT |->
     [x \in 1..BOARD_WIDTH |-> IF x = 2 /\ y > BOARD_HEIGHT - h THEN FillKind ELSE EMPTY]] :
   h \in 0..BOARD_HEIGHT}

\* A running game, not paused, whose active piece, of any kind, has just
\* spawned in a valid position.
InitLive ==
  /\ \E board \in LiveBoards, kind \in Kinds :
       /\ is_valid_position(board, Piece(kind), 0)
       /\ game = GameWith(MIN_LEVEL, board, Piece(kind), FALSE, FALSE)
  /\ now = ClockStart
  /\ last_gravity_time = ClockStart
  /\ pc = "input"
  /\ keys = 0
  /\ hist = HistInit(game, now)

\* The time by which a piece left alone has locked: a gravity step every
\* second clock step for each row of the board and the rows above it, and
\* the lock delay.
LiveUntil == ClockStart + (BOARD_HEIGHT + 3) * 2 * LOCK_DELAY_DURATION

\* game_loop calls handle_input, term.inkey waits and returns no key; the
\* run is followed until the first lock.
WaitNoKey ==
  /\ pc = "input"
  /\ hist.last_lock.n = 0
  /\ \E dt \in CoarseSteps :
       /\ now + dt <= LiveUntil
       /\ now' = now + dt
  /\ \E perm \in Shuffles(game) :
       \E inp \in {handle_input(game, "none", now', perm)} :
          /\ game' = inp.game
          /\ pc' = IF inp.ret THEN "gravity" ELSE "exit"
  /\ hist' = ObserveInput(hist, game, game', "none", now')
  /\ UNCHANGED <<last_gravity_time, keys>>

NextLive ==
  \/ WaitNoKey
  \/ Gravity
  \/ Update

\* game_loop keeps iterating, the clock advances and no key arrives.
SpecLive ==
  /\ InitLive
  /\ [][NextLive]_vars
  /\ WF_vars(WaitNoKey)
  /\ WF_vars(Gravity)
  /\ WF_vars(Update)

\* The pieces of InitValid: any kind and rotation, anywhere on the board and
\* around it.
ProbePieces ==
  [shape_name : Kinds, rotation : 0..3,
   x : (-4)..BOARD_WIDTH, y : (-5)..BOARD_HEIGHT]

\* The values of check_y_offset that the callers pass.
CheckOffsets == {-1, 0, 1}

\* A game whose active piece is anywhere, valid or not.
InitValid ==
  /\ \E board \in ProbeBoards, piece \in ProbePieces :
       game = GameWith(MIN_LEVEL, board, piece, FALSE, FALSE)
  /\ now = ClockStart
  /\ last_gravity_time = ClockStart
  /\ pc = "input"
  /\ keys = 0
  /\ hist = [HistInit(game, now) EXCEPT !.ground_since = 0]

\* A direct call of Game._is_valid_position(self.current_piece, check_y_offset).
CallIsValidPosition ==
  /\ hist.ret.call = "none"
  /\ \E check_y_offset \in CheckOffsets :
       hist' = [hist EXCEPT !.ret =
                  [call |-> "_is_valid_position", check_y_offset |-> check_y_offset,
                   value |-> is_valid_position(game.board, game.current_piece,
                                               check_y_offset)]]
  /\ UNCHANGED <<game, now, last_gravity_time, pc, keys>>

NextValid == CallIsValidPosition

\* _is_valid_position() called once on a game set up by InitValid.
SpecValid == InitValid /\ [][NextValid]_vars

\* ------------------------------------------------------------- claims
\* The kinds popped from the bag in the k-th stretch of seven draws.
Window(drawn, k) ==
  [i \in 1..(IF Len(drawn) >= 7 * k THEN 7 ELSE Len(drawn) - 7 * (k - 1)) |->
     drawn[7 * (k - 1) + i]]

\* C1: counted from the first piece drawn at construction, every stretch of
\* seven consecutive draws (draws 1-7, 8-14, ...) has no kind twice, and a
\* complete stretch has each of the seven kinds exactly once.
C1_BagFairness ==
  \A k \in 1..((Len(game.drawn) + 6) \div 7) :
    LET w == Window(game.drawn, k)
    IN  /\ \A i, j \in DOMAIN w : w[i] = w[j] => i = j
        /\ Len(w) = 7 => {w[i] : i \in DOMAIN w} = Kinds

\* C1 witness: two complete stretches of seven draws, the second from a bag
\* refilled inside _new_piece.
C1_Witness ==
  /\ Len(game.drawn) = 14
  /\ game.bag = <<>>
  /\ game.hold_piece # NoPiece


\* The cells of a piece, as a set.
BlockSet(piece) ==
  {<<piece.x + c, piece.y + r>> : <<c, r>> \in
     {cr \in (0..4) \X (0..4) : SHAPES[piece.shape_name][piece.rotation + 1][cr[2] + 1][cr[1] + 1] = 1}}

\* A block at (x, y) collides: it is outside the columns, on or below the
\* floor, or on a non-empty cell of a row y >= 0.
Collides(board, x, y) ==
  \/ x < 0
  \/ x >= BOARD_WIDTH
  \/ y >= BOARD_HEIGHT
  \/ (y >= 0 /\ board[y + 1][x + 1] # EMPTY)

\* No block of the piece, moved down by dy rows, collides.
Free(board, piece, dy) ==
  \A b \in BlockSet(piece) : ~Collides(board, b[1], b[2] + dy)

\* The lowest row the piece reaches from where it is by single steps down.
LowestY(board, piece) ==
  CHOOSE y \in piece.y..BOARD_HEIGHT :
    /\ \A k \in (piece.y + 1)..y : Free(board, [piece EXCEPT !.y = k], 0)
    /\ ~Free(board, [piece EXCEPT !.y = y + 1], 0)

\* The number of non-empty cells of a board.
FilledCount(board) ==
  Cardinality({c \in (1..BOARD_WIDTH) \X (1..BOARD_HEIGHT) : board[c[2]][c[1]] # EMPTY})

\* The step called _lock_piece.
LockStep == hist'.last_lock.n # hist.last_lock.n

\* C3 (as claimed): update() does not lock a piece within LOCK_DELAY_DURATION
\* of its last successful move or rotation that left it on the ground; here
\* for a lock that comes after, not at the moment of, that move.
C3_LockWaitsForDelayAfterMove ==
  (hist.last_lock.by = "timer" /\ hist.last_lock.since_move > 0)
    => hist.last_lock.since_move >= LOCK_DELAY_DURATION

\* C4 (as claimed): update() locks a piece only when it is touching the
\* ground and has been touching it for at least LOCK_DELAY_DURATION.
C4_TimerLockAfterGroundedDelay ==
  hist.last_lock.by = "timer"
    => /\ hist.last_lock.grounded
       /\ hist.last_lock.ground_for >= LOCK_DELAY_DURATION

\* C5 (as claimed): the time spent in pause does not count towards the lock
\* delay: update() locks only when LOCK_DELAY_DURATION of unpaused time has
\* passed since the lock timer started.
C5_PauseFreezesLockTimer ==
  hist.last_lock.by = "timer" => hist.last_lock.unpaused >= LOCK_DELAY_DURATION

\* C6: every call of _lock_piece finds the active piece touching the ground,
\* and hard_drop() locks the piece at the lowest row it reaches by moving
\* straight down and writes its blocks into the board (or sets game_over).
C6_LockOnGround ==
  [][LockStep =>
       /\ hist'.last_lock.grounded
       /\ hist'.last_lock.by = "hard" =>
            /\ hist'.last_lock.piece =
                 [game.current_piece EXCEPT !.y = LowestY(game.board, game.current_piece)]
            /\ \/ game'.game_over
               \/ LET cells == {b \in BlockSet(hist'.last_lock.piece) : b[2] >= 0}
                      fresh == {b \in cells : game.board[b[2] + 1][b[1] + 1] = EMPTY}
                  IN  /\ FilledCount(game'.board) =
                           FilledCount(game.board) + Cardinality(fresh)
                             - BOARD_WIDTH * hist'.last_lock.lines
                      /\ hist'.last_lock.lines = 0 =>
                           \A b \in cells :
                             game'.board[b[2] + 1][b[1] + 1] = hist'.last_lock.piece.shape_name
  ]_vars

\* C6 witness: a hard drop took a piece down to the floor and locked it there.
C6_Witness ==
  /\ hist.last_lock.by = "hard"
  /\ hist.last_lock.piece.y > -2
  /\ ~game.game_over

\* C7 (as claimed): an active piece at the spawn position that is not in a
\* valid position means game_over.
C7_InvalidSpawnIsGameOver ==
  (/\ game.current_piece = Piece(game.current_piece.shape_name)
   /\ ~Free(game.board, game.current_piece, 0))
    => game.game_over

\* C8: a lock that leaves the spawn cells of the next piece occupied sets
\* game_over; game_over stays true, the board is not written again,
\* update() changes nothing and game_loop starts no further iteration.
C8_GameOverIsFinal ==
  [][/\ (LockStep /\ ~Free(game'.board, game'.current_piece, 0)) => game'.game_over
     /\ game.game_over =>
          /\ game'.game_over
          /\ game'.board = game.board
          /\ pc = "update" => game' = game
          /\ pc' # "input"
  ]_vars

\* C8 witness: a lock ended the game and game_loop has left its loop.
C8_Witness ==
  /\ game.game_over
  /\ hist.last_lock.by # "none"
  /\ ~Free(game.board, game.current_piece, 0)
  /\ pc = "exit"

\* C2: _is_valid_position returns False exactly when some block of the
\* piece, moved down by check_y_offset, is outside the columns, on or below
\* the floor, or on a non-empty cell of a row y >= 0; a block above the top
\* row is checked against the columns only.
C2_ValidIffNoCollision ==
  hist.ret.call = "_is_valid_position" =>
    (hist.ret.value = FALSE <=>
       \E b \in BlockSet(game.current_piece) :
          LET bx == b[1]
              by == b[2] + hist.ret.check_y_offset
          IN  \/ bx < 0 \/ bx >= BOARD_WIDTH
              \/ by >= BOARD_HEIGHT
              \/ (by >= 0 /\ by < BOARD_HEIGHT /\ bx >= 0 /\ bx < BOARD_WIDTH
                    /\ game.board[by + 1][bx + 1] # EMPTY))

\* C2 witness: a piece with a block above the top row and every block in a
\* free place was found valid.
C2_Witness ==
  /\ hist.ret.call = "_is_valid_position"
  /\ hist.ret.value
  /\ \E b \in BlockSet(game.current_piece) : b[2] + hist.ret.check_y_offset < 0
  /\ game.board # EmptyBoard

\* The base points of a lock, as the claim tabulates them.
C9_Base(n, t_spin) ==
  IF t_spin = None
  THEN CASE n = 0 -> 0 [] n = 1 -> 100 [] n = 2 -> 300 [] n = 3 -> 500 [] n = 4 -> 800
  ELSE CASE n = 0 -> (IF t_spin = "T_SPIN" THEN 400 ELSE 100)
         [] n = 1 -> 800 [] n = 2 -> 1200 [] n = 3 -> 1600

\* C9: a lock that clears n rows at level L adds floor(base * m * L) points,
\* m being 3/2 for a Tetris or a T-Spin when is_back_to_back was true before
\* the lock and 1 otherwise; a Tetris at level 1 without back-to-back adds
\* 800, a back-to-back Tetris at level 2 adds 2400, a T-Spin Triple at level
\* 1 without back-to-back adds 1600.
C9_ClearPoints ==
  (hist.last_lock.n > 0 /\ ~(hist.last_lock.t_spin # None /\ hist.last_lock.lines = 4)) =>
    LET l == hist.last_lock
        difficult == l.lines = 4 \/ l.t_spin # None
        base == C9_Base(l.lines, l.t_spin)
    IN  /\ l.points = IF difficult /\ l.back_to_back_before
                      THEN (base * 3 * l.level_before) \div 2
                      ELSE base * l.level_before
        /\ (l.lines = 4 /\ l.level_before = 1 /\ ~l.back_to_back_before)
             => l.points = 800
        /\ (l.lines = 4 /\ l.level_before = 2 /\ l.back_to_back_before)
             => l.points = 2400
        /\ (l.lines = 3 /\ l.t_spin # None /\ l.level_before = 1 /\ ~l.back_to_back_before)
             => l.points = 1600

\* C9 witness: a back-to-back Tetris at level 2.
C9_Witness ==
  /\ hist.last_lock.lines = 4
  /\ hist.last_lock.level_before = 2
  /\ hist.last_lock.back_to_back_before
  /\ hist.last_lock.points = 2400

\* C10 (as claimed): after a lock is_back_to_back is true if the lock
\* cleared 4 rows or was a T-Spin that cleared rows, false if it cleared 1
\* to 3 rows without a T-Spin, and as it was before the lock if the lock
\* cleared no row, a detected T-Spin without rows included; here for the
\* locks of a piece that is below the top row of the board.
C10_BackToBackAfterLock ==
  (hist.last_lock.n > 0 /\ hist.last_lock.piece.y >= 0) =>
    LET l == hist.last_lock
    IN  /\ (l.lines = 4 \/ (l.t_spin # None /\ l.lines > 0)) => game.is_back_to_back
        /\ (l.lines \in 1..3 /\ l.t_spin = None) => ~game.is_back_to_back
        /\ l.lines = 0 => game.is_back_to_back = l.back_to_back_before

\* C11 (as claimed): the level never exceeds MAX_LEVEL.
C11_LevelAtMostMax == game.level <= MAX_LEVEL

\* C12 (as claimed): no lock leaves the level lower than it was before the
\* lock, whatever the start level.
C12_LevelNeverDecreases ==
  hist.last_lock.n > 0 => game.level >= hist.last_lock.level_before

\* C13: hold() sets can_hold to false, only a lock sets it back to true,
\* and a hold() called while can_hold is false changes no field of the game;
\* so at most one hold() between two locks changes the state.
C13_HoldOncePerLock ==
  [][/\ (KeyHold /\ ~game.paused /\ ~game.can_hold) => game' = game
     /\ (KeyHold /\ ~game.paused /\ game.can_hold) => ~game'.can_hold
     /\ (~game.can_hold /\ game'.can_hold) => LockStep
  ]_vars

\* C13 witness: a hold, then a lock that allowed holding again, then a
\* second hold, after which holding is not allowed.
C13_Witness ==
  /\ ~game.can_hold
  /\ hist.last_lock.n = 1
  /\ Len(game.drawn) = 4
  /\ game.hold_piece.shape_name = game.drawn[3]

\* C14: a permitted hold() with an empty slot puts the active kind into the
\* slot, makes the next piece active and draws a new next piece; with an
\* occupied slot it exchanges the active and the held kind and leaves the
\* next piece and the bag alone. Either way the new active piece is at the
\* spawn position in rotation 0, board and score are unchanged and
\* last_move_was_rotation is false.
C14_HoldSwaps ==
  [][(KeyHold /\ ~game.paused /\ game.can_hold) =>
       /\ game'.hold_piece.shape_name = game.current_piece.shape_name
       /\ IF game.hold_piece = NoPiece
          THEN /\ game'.current_piece.shape_name = game.next_piece.shape_name
               /\ Len(game'.drawn) = Len(game.drawn) + 1
               /\ game'.next_piece.shape_name = game'.drawn[Len(game'.drawn)]
          ELSE /\ game'.current_piece.shape_name = game.hold_piece.shape_name
               /\ game'.next_piece = game.next_piece
               /\ game'.bag = game.bag
               /\ game'.drawn = game.drawn
       /\ game'.current_piece.x = BOARD_WIDTH \div 2 - 2
       /\ game'.current_piece.y = -2
       /\ game'.current_piece.rotation = 0
       /\ game'.board = game.board
       /\ game'.score = game.score
       /\ ~game'.last_move_was_rotation
  ]_vars

\* C14 witness: a hold into the empty slot, a lock, and a hold that brought
\* the first piece back from the slot to the spawn position.
C14_Witness ==
  /\ ~game.can_hold
  /\ Len(game.drawn) = 4
  /\ game.current_piece = Piece(game.drawn[1])
  /\ game.hold_piece.shape_name = game.drawn[3]
  /\ hist.last_lock.piece.shape_name = game.drawn[2]

\* The horizontal offsets that the claims give for rotate(), in order.
RotateOffsets == <<0, -1, 1, -2, 2>>

\* The indices of the offsets at which the piece of g, turned once, is in a
\* free place.
FreeTurns(g) ==
  {i \in 1..5 :
     Free(g.board,
          [g.current_piece EXCEPT !.rotation = (@ + 1) % 4, !.x = @ + RotateOffsets[i]],
          0)}

\* C15: rotate() tries rotation (r+1) mod 4 at the offsets 0, -1, +1, -2,
\* +2 in that order with y unchanged and commits the first one whose position
\* is valid: x += offset, last_move_was_rotation = true.
C15_RotateFirstValidKick ==
  (hist.op.name = "rotate" /\ FreeTurns(hist.op.before) # {}) =>
    LET p == hist.op.before.current_piece
        i == CHOOSE k \in FreeTurns(hist.op.before) :
               \A j \in FreeTurns(hist.op.before) : k <= j
    IN  /\ game.current_piece =
             [p EXCEPT !.rotation = (@ + 1) % 4, !.x = @ + RotateOffsets[i]]
        /\ game.last_move_was_rotation

\* C15 witness: a rotation that was committed two columns to the right.
C15_Witness ==
  /\ hist.op.name = "rotate"
  /\ game.current_piece.rotation # hist.op.before.current_piece.rotation
  /\ game.current_piece.x = hist.op.before.current_piece.x + 2

\* C16: a blocked move(dx), and a rotate() whose plain rotation and four
\* kicks are all invalid, leave the piece, last_move_was_rotation, the lock
\* timer, the board, the score and every other field as they were.
C16_BlockedIsNoOp ==
  /\ (/\ hist.op.name = "move"
      /\ ~Free(hist.op.before.board,
               [hist.op.before.current_piece EXCEPT !.x = @ + hist.op.dx], 0))
       => game = hist.op.before
  /\ (hist.op.name = "rotate" /\ FreeTurns(hist.op.before) = {})
       => game = hist.op.before

\* C16 witness: a rotate() with no valid position, on a piece whose last
\* move was a rotation.
C16_Witness ==
  /\ hist.op.name = "rotate"
  /\ FreeTurns(hist.op.before) = {}
  /\ hist.op.before.last_move_was_rotation
  /\ hist.op.before.current_piece.shape_name = "T"

\* C17: four rotate() calls in a row, each with a valid plain rotation,
\* bring the piece back to its rotation and its (x, y).
C17_FourRotationsReturn ==
  hist.op.run = 4 => game.current_piece = hist.op.origin

\* C17 witness: a T piece after four plain rotations.
C17_Witness ==
  /\ hist.op.run = 4
  /\ hist.op.origin.shape_name = "T"
  /\ game.board # EmptyBoard

\* The indices of the rows of a board that have no empty cell.
FullRows(board) ==
  {y \in 1..BOARD_HEIGHT : \A x \in 1..BOARD_WIDTH : board[y][x] # EMPTY}

\* C18: the line clear of a lock removes exactly the rows without an empty
\* cell, keeps the other rows in their order, compacted to the bottom, puts
\* as many empty rows on top, and returns that number n, 0 <= n <= 4; with no
\* full row the board stays as it is and n = 0.
C18_ClearRemovesFullRows ==
  hist.last_lock.n > 0 =>
    LET written == hist.last_lock.board_written
        full == FullRows(written)
        n == Cardinality(full)
    IN  /\ hist.last_lock.lines = n
        /\ n <= 4
        /\ Len(game.board) = BOARD_HEIGHT
        /\ \A y \in 1..n : game.board[y] = EmptyRow
        /\ \A y \in (1..BOARD_HEIGHT) \ full :
             game.board[y + Cardinality({f \in full : f > y})] = written[y]
        /\ n = 0 => game.board = written

\* C18 witness: two rows cleared with a row that stays between them and
\* another one above them.
C18_Witness ==
  /\ hist.last_lock.n > 0
  /\ hist.last_lock.lines = 2
  /\ \E a, b, c, d \in 1..BOARD_HEIGHT :
       /\ a < b /\ b < c /\ c < d
       /\ {b, d} = FullRows(hist.last_lock.board_written)
       /\ hist.last_lock.board_written[a] # EmptyRow
       /\ hist.last_lock.board_written[c] # EmptyRow
       /\ hist.last_lock.board_written[a] # hist.last_lock.board_written[c]

\* The four diagonal corners around the pivot (piece.x + 2, piece.y + 1):
\* top left, top right, bottom left, bottom right.
Corners(piece) ==
  << <<piece.x + 1, piece.y>>, <<piece.x + 3, piece.y>>,
     <<piece.x + 1, piece.y + 2>>, <<piece.x + 3, piece.y + 2>> >>

\* A corner is occupied as the claim C19 has it: beside the columns, on or
\* below the floor, or on a non-empty cell; never above the board inside the
\* columns.
OccupiedAsClaimed(board, x, y) ==
  \/ x < 0
  \/ x >= BOARD_WIDTH
  \/ y >= BOARD_HEIGHT
  \/ (y >= 0 /\ board[y + 1][x + 1] # EMPTY)

\* C19 (as claimed): the T-Spin check counts a corner (x, y) around the
\* pivot as occupied iff x is outside the columns, or y >= BOARD_HEIGHT, or
\* the cell is non-empty; a corner above the board inside the columns is
\* never counted.
C19_CornersAboveNotOccupied ==
  (/\ hist.last_lock.n > 0
   /\ hist.last_lock.piece.shape_name = "T"
   /\ hist.last_lock.rotated) =>
    hist.last_lock.corners =
      Cardinality({i \in 1..4 :
        OccupiedAsClaimed(hist.last_lock.board_before,
                          Corners(hist.last_lock.piece)[i][1],
                          Corners(hist.last_lock.piece)[i][2])})

\* A corner is occupied as _check_t_spin counts it: outside the board on any
\* side, or on a non-empty cell.
OccupiedAsCounted(board, x, y) ==
  \/ x < 0
  \/ x >= BOARD_WIDTH
  \/ y < 0
  \/ y >= BOARD_HEIGHT
  \/ board[y + 1][x + 1] # EMPTY

\* The indices into Corners of the front corners for a rotation: 0 the top
\* pair, 1 the right pair, 2 the bottom pair, 3 the left pair.
FrontPair(rotation) ==
  IF rotation = 0 THEN {1, 2}
  ELSE IF rotation = 1 THEN {2, 4}
  ELSE IF rotation = 2 THEN {3, 4}
  ELSE {1, 3}

\* C20: a lock is a T-Spin exactly when the piece is a T, its last move was
\* a rotation and at least 3 of the 4 corners are occupied; a T-Spin Mini
\* exactly when the piece is a T, its last move was a rotation, exactly 2
\* corners are occupied and at least one front corner of the rotation is;
\* otherwise it is no T-Spin.  Corners are taken on the board before the
\* blocks of the piece are written, and counted as _check_t_spin counts them.
C20_TSpinClassification ==
  hist.last_lock.n > 0 =>
    LET l == hist.last_lock
        taken == {i \in 1..4 :
                    OccupiedAsCounted(l.board_before, Corners(l.piece)[i][1],
                                      Corners(l.piece)[i][2])}
        turned_t == l.piece.shape_name = "T" /\ l.rotated
    IN  /\ l.t_spin = "T_SPIN" <=> (turned_t /\ Cardinality(taken) >= 3)
        /\ l.t_spin = "T_SPIN_MINI" <=>
             (/\ turned_t
              /\ Cardinality(taken) = 2
              /\ taken \cap FrontPair(l.piece.rotation) # {})
        /\ l.t_spin \in {"T_SPIN", "T_SPIN_MINI", None}
        /\ l.t_spin = None =>
             l.points = IF l.lines = 4 /\ l.back_to_back_before
                        THEN (C9_Base(4, None) * BACK_TO_BACK_NUM * l.level_before)
                               \div BACK_TO_BACK_DEN
                        ELSE C9_Base(l.lines, None) * l.level_before

\* C20 witness: a turned T with exactly two occupied corners, both on the
\* board and neither a front corner, locked as no T-Spin.
C20_Witness ==
  /\ hist.last_lock.n > 0
  /\ hist.last_lock.piece.shape_name = "T"
  /\ hist.last_lock.rotated
  /\ hist.last_lock.piece.y >= 0
  /\ hist.last_lock.corners = 2
  /\ hist.last_lock.t_spin = None

\* The points the table of C9 gives for the lock l.
TablePoints(l) ==
  IF (l.lines = 4 \/ l.t_spin # None) /\ l.back_to_back_before
  THEN (C9_Base(l.lines, l.t_spin) * BACK_TO_BACK_NUM * l.level_before) \div BACK_TO_BACK_DEN
  ELSE C9_Base(l.lines, l.t_spin) * l.level_before

\* C21: soft_drop() on an airborne piece moves it down exactly one row, adds
\* exactly 1 to the score and clears last_move_was_rotation; on a grounded
\* piece it moves nothing, adds nothing and does not lock, it only starts the
\* lock timer if none is running.  hard_drop() adds 2 points for each row the
\* piece descends, before the points of the lock's clear.
C21_DropPoints ==
  /\ (hist.op.name = "soft_drop"
        /\ Free(hist.op.before.board, hist.op.before.current_piece, 1)) =>
       /\ game.current_piece = [hist.op.before.current_piece EXCEPT !.y = @ + 1]
       /\ game.score = hist.op.before.score + 1
       /\ ~game.last_move_was_rotation
       /\ game.board = hist.op.before.board
       /\ hist.last_lock.n = 0
  /\ (hist.op.name = "soft_drop"
        /\ ~Free(hist.op.before.board, hist.op.before.current_piece, 1)) =>
       /\ game = [hist.op.before EXCEPT
                    !.lock_delay_start_time = IF @ = 0 THEN now ELSE @]
       /\ hist.last_lock.n = 0
  /\ hist.last_lock.by = "hard" =>
       game.score = hist.op.before.score
         + 2 * (LowestY(hist.op.before.board, hist.op.before.current_piece)
                  - hist.op.before.current_piece.y)
         + TablePoints(hist.last_lock)

\* C21 witness: a soft drop on a grounded piece whose last move was a
\* rotation and whose lock timer was not running.
C21_Witness ==
  /\ hist.op.name = "soft_drop"
  /\ ~Free(hist.op.before.board, hist.op.before.current_piece, 1)
  /\ hist.op.before.lock_delay_start_time = 0
  /\ game.lock_delay_start_time = now
  /\ game.last_move_was_rotation

\* C22: after every lock, by the timer or by a hard drop, can_hold is true,
\* last_move_was_rotation is false, the active piece has the kind of the
\* former next piece and is at the spawn position in rotation 0, the next
\* piece is a fresh draw from the bag, and the hold slot is as it was.
C22_LockResets ==
  [][LockStep =>
       /\ game'.can_hold
       /\ ~game'.last_move_was_rotation
       /\ game'.current_piece =
            [shape_name |-> game.next_piece.shape_name, rotation |-> 0,
             x |-> BOARD_WIDTH \div 2 - 2, y |-> -2]
       /\ Len(game'.drawn) = Len(game.drawn) + 1
       /\ game'.next_piece =
            [shape_name |-> game'.drawn[Len(game'.drawn)], rotation |-> 0,
             x |-> BOARD_WIDTH \div 2 - 2, y |-> -2]
       /\ IF game.bag # <<>>
          THEN /\ game'.next_piece.shape_name = game.bag[Len(game.bag)]
               /\ game'.bag = SubSeq(game.bag, 1, Len(game.bag) - 1)
          ELSE /\ Len(game'.bag) = Cardinality(Kinds) - 1
               /\ {game'.bag[i] : i \in 1..Len(game'.bag)}
                    = Kinds \ {game'.next_piece.shape_name}
       /\ game'.hold_piece = game.hold_piece
  ]_vars

\* C22 witness: a hold and then a hard drop, after which holding is allowed
\* again and the slot still has the held piece.
C22_Witness ==
  /\ hist.last_lock.n = 1
  /\ hist.last_lock.by = "hard"
  /\ pc = "gravity"
  /\ game.can_hold
  /\ game.hold_piece # NoPiece
  /\ game.hold_piece.shape_name = game.drawn[1]
  /\ hist.last_lock.piece.shape_name = game.drawn[2]
  /\ game.current_piece.shape_name = game.drawn[3]
  /\ game.next_piece.shape_name = game.drawn[4]

\* C23: the y returned by get_ghost_piece_y() is the greatest row the active
\* piece reaches by valid single steps down, it is not less than the y of
\* the piece, hard_drop() called in the same state writes the piece at that
\* row, and the call changes nothing in the game.
C23_GhostIsHardDropRow ==
  hist.op.name = "get_ghost_piece_y" =>
    LET g == hist.op.before
        landed == [g.current_piece EXCEPT !.y = hist.op.ret]
    IN  /\ hist.op.ret = LowestY(g.board, g.current_piece)
        /\ hist.op.ret >= g.current_piece.y
        /\ hist.last_lock.n = 0 => game = g
        /\ hist.last_lock.by = "hard" =>
             /\ hist.last_lock.piece = landed
             /\ \A b \in BlockSet(landed) :
                  b[2] >= 0 =>
                    hist.last_lock.board_written[b[2] + 1][b[1] + 1] = landed.shape_name

\* C23 witness: a ghost two rows or more below the piece, resting on a
\* stacked cell above the floor, and the hard drop that followed.
C23_Witness ==
  /\ hist.op.name = "get_ghost_piece_y"
  /\ hist.last_lock.by = "hard"
  /\ hist.op.ret >= hist.op.before.current_piece.y + 2
  /\ \E b \in BlockSet(hist.last_lock.piece) :
       /\ b[2] + 1 >= 0
       /\ b[2] + 1 < BOARD_HEIGHT
       /\ hist.op.before.board[b[2] + 2][b[1] + 1] # EMPTY

\* C24 (as claimed): at the end of every update() of a game that is neither
\* paused nor over, the lock timer is unset whenever the active piece is
\* airborne, also when that update() locked a piece and a new one spawned.
C24_TimerUnsetWhenAirborne ==
  [][(/\ Update
      /\ ~game.paused
      /\ ~game.game_over
      /\ ~game'.game_over
      /\ Free(game'.board, game'.current_piece, 1))
       => game'.lock_delay_start_time = 0
  ]_vars

\* C25 (as claimed): last_move_was_rotation is true only if the last change
\* of the position or rotation of the active piece was a committed rotation:
\* a step that moves the piece in any other way (horizontal move, soft drop,
\* gravity) leaves the flag false, and only a rotation sets it.
C25_FlagOnlyAfterRotation ==
  [][(/\ game'.last_move_was_rotation
      /\ game'.current_piece # game.current_piece \/ ~game.last_move_was_rotation)
       => /\ KeyRotate
          /\ ~game.paused
          /\ game'.current_piece.rotation = (game.current_piece.rotation + 1) % 4
  ]_vars

\* Gravity is due: more than the gravity interval of the level has passed
\* since the last gravity step.
GravityDue ==
  now - last_gravity_time >
    (IF INITIAL_GRAVITY_INTERVAL - (game.level - 1) * GRAVITY_LEVEL_MULTIPLIER
          > MIN_GRAVITY_INTERVAL
     THEN INITIAL_GRAVITY_INTERVAL - (game.level - 1) * GRAVITY_LEVEL_MULTIPLIER
     ELSE MIN_GRAVITY_INTERVAL)

\* C26: a gravity step moves the active piece down by exactly one row when
\* the game is not paused and the piece is not grounded, and else leaves it
\* where it is; it changes neither x, rotation, score nor the board, moves no
\* piece into an invalid position and locks no piece.  A call of
\* apply_gravity before the interval has passed changes nothing.
C26_GravityMovesOneRow ==
  [][Gravity =>
       /\ game'.current_piece =
            IF GravityDue /\ ~game.paused /\ Free(game.board, game.current_piece, 1)
            THEN [game.current_piece EXCEPT !.y = @ + 1]
            ELSE game.current_piece
       /\ game' = [game EXCEPT !.current_piece = game'.current_piece]
       /\ game'.current_piece # game.current_piece =>
            Free(game'.board, game'.current_piece, 0)
       /\ ~LockStep
  ]_vars

\* C26 witness: without any key, gravity has moved the first piece one row
\* down from the spawn position.
C26_Witness ==
  /\ pc = "update"
  /\ keys = 0
  /\ last_gravity_time = now
  /\ game.current_piece.y = -1
  /\ Len(game.drawn) = 2

\* C27 (as claimed): while game_over is false the active piece is in a valid
\* position (inside the columns, above the floor, on no locked cell), and a
\* lock writes the blocks of the piece into cells that were empty.
C27_ActivePieceValid ==
  [][/\ ~game'.game_over => Free(game'.board, game'.current_piece, 0)
     /\ LockStep =>
          \A b \in BlockSet(hist'.last_lock.piece) :
            b[2] >= 0 => hist'.last_lock.board_before[b[2] + 1][b[1] + 1] = EMPTY
  ]_vars

\* C28: between operations the board has no completely filled row: a row
\* that a lock fills is removed within that lock, and no operation other
\* than a lock writes to the board.
C28_NoFullRow ==
  [][/\ FullRows(game'.board) = {}
     /\ game'.board # game.board => LockStep
     /\ LockStep => hist'.last_lock.lines = Cardinality(FullRows(hist'.last_lock.board_written))
  ]_vars

\* C28 witness: the second or a later lock filled a row, which is gone, and
\* cells of other rows remain.
C28_Witness ==
  /\ hist.last_lock.n >= 2
  /\ FullRows(hist.last_lock.board_written) # {}
  /\ FullRows(game.board) = {}
  /\ FilledCount(game.board) > 0

\* C29: in a game that is not paused and gets no input, while game_loop keeps
\* iterating and the clock advances, the active piece is eventually locked
\* or the game is over.
C29_EventuallyLocked ==
  <>(hist.last_lock.n > 0 \/ game.game_over)

\* C29 witness: gravity took the piece down three rows or more and the timer
\* locked it.
C29_Witness ==
  /\ hist.last_lock.by = "timer"
  /\ hist.last_lock.piece.y >= hist.op.origin.y + 3
  /\ hist.last_lock.ground_for >= LOCK_DELAY_DURATION

=============================================================================
